---- MODULE Spec2Model ----
(***************************************************************************)
(* flac_directory.py: batch conversion of the .wav/.flac files of a        *)
(* directory through the external tool ffmpeg.                             *)
(*                                                                         *)
(* The model follows main -> check_ffmpeg -> process_directory ->          *)
(* convert_file, one action per block of statements, with the file system  *)
(* (source files, destination files) and the outcome of every external     *)
(* call (ffmpeg, stat, unlink) as the environment.                         *)
(*                                                                         *)
(* Source file f and its destination (same stem, the other extension) are  *)
(* both named by the number f.                                             *)
(***************************************************************************)
EXTENDS Integers, Sequences, FiniteSets

\* ---------------------------------------------------------------- bounds
NFiles == 2      \* candidate source files below input_dir
MaxSize == 2     \* file sizes range over 1..MaxSize
MaxTime == 2     \* modification times range over 1..MaxTime
MaxRuns == 2     \* successive runs of the program on the same directory

Files == 1..NFiles
Sizes == 1..MaxSize
Times == 1..MaxTime

VARIABLES
    \* command line and environment
    input_dir,          \* "none" (argument absent), "missing", "notdir", "dir"
    recursive, to_wav, delete_original, overwrite,
    ffmpeg,             \* what running "ffmpeg -version" does: "ok";
                        \* "missing" (FileNotFoundError or SubprocessError);
                        \* "noexec" (another exception, such as the
                        \* PermissionError of a file that is not executable)
    \* file system
    src,                \* src[f]: [kind, size, mtime]; kind "file", "dangling", "gone"
    dst,                \* dst[f]: [exists, size, mtime]
    \* control
    pc, exit_code, printed,
    \* locals of process_directory
    source_files, idx, input_size,
    success_count, error_count, skipped_count,
    total_input_size, total_output_size,
    \* locals of convert_file
    cmd, result,
    \* history of the current run, per file
    status,             \* "pending", "converted", "skipped", "error", "aborted"
    cfCalled,           \* convert_file was entered for f
    toolRc,             \* how the subprocess ended for f, "none" if never run
    unlinked,           \* "no", "done" (source removed), "failed" (unlink raised)
    sizeIn,             \* input_size as read at line 140 (0: not read)
    src0, dst0,         \* the files as they were when the run started
    \* history across runs
    run, prevStatus     \* prevStatus: status at the end of the previous run

cfgVars == <<input_dir, recursive, to_wav, delete_original, overwrite, ffmpeg>>
fsVars == <<src, dst>>
ctlVars == <<pc, exit_code, printed>>
cntVars == <<success_count, error_count, skipped_count,
             total_input_size, total_output_size>>
loopVars == <<source_files, idx, input_size>>
cfVars == <<cmd, result>>
histVars == <<status, cfCalled, toolRc, unlinked, sizeIn, src0, dst0>>
runVars == <<run, prevStatus>>
vars == <<cfgVars, fsVars, ctlVars, cntVars, loopVars, cfVars, histVars, runVars>>

\* ------------------------------------------------------------ helpers
RECURSIVE SumOver(_, _)
SumOver(S, g) ==
    IF S = {} THEN 0
    ELSE LET x == CHOOSE y \in S : TRUE IN g[x] + SumOver(S \ {x}, g)

Min(S) == CHOOSE x \in S : \A y \in S : x <= y

RECURSIVE Listing(_)
Listing(S) == IF S = {} THEN <<>> ELSE <<Min(S)>> \o Listing(S \ {Min(S)})

NoDst == [exists |-> FALSE, size |-> 0, mtime |-> 0]
Dangling == [kind |-> "dangling", size |-> 0, mtime |-> 0]
Gone == [kind |-> "gone", size |-> 0, mtime |-> 0]

\* Even-numbered files live in a subdirectory of input_dir.
InSubdir(f) == f % 2 = 0

\* Path.glob lists directory entries by name, broken symbolic links included.
Glob(rec) == {f \in Files : src[f].kind # "gone" /\ (rec \/ ~InSubdir(f))}

source_ext == IF to_wav THEN ".flac" ELSE ".wav"
target_ext == IF to_wav THEN ".wav" ELSE ".flac"

cur == source_files[idx]

NoHistory ==
    /\ status = [f \in Files |-> "pending"]
    /\ cfCalled = [f \in Files |-> FALSE]
    /\ toolRc = [f \in Files |-> "none"]
    /\ unlinked = [f \in Files |-> "no"]
    /\ sizeIn = [f \in Files |-> 0]

NoLocals ==
    /\ source_files = <<>> /\ idx = 0 /\ input_size = 0
    /\ success_count = 0 /\ error_count = 0 /\ skipped_count = 0
    /\ total_input_size = 0 /\ total_output_size = 0
    /\ cmd = <<>> /\ result = FALSE

SrcStates == {Dangling} \cup [kind : {"file"}, size : Sizes, mtime : Times]
DstStates == {NoDst} \cup [exists : {TRUE}, size : {1}, mtime : Times]

Init ==
    /\ recursive \in BOOLEAN /\ to_wav \in BOOLEAN
    /\ delete_original \in BOOLEAN /\ overwrite \in BOOLEAN
    /\ \/ /\ input_dir = "dir" /\ ffmpeg = "ok"
          /\ src \in [Files -> SrcStates]
          /\ dst \in [Files -> DstStates]
       \/ /\ \/ input_dir \in {"none", "missing", "notdir"} /\ ffmpeg = "ok"
             \/ input_dir = "dir" /\ ffmpeg \in {"missing", "noexec"}
          /\ src = [f \in Files |-> [kind |-> "file", size |-> 1, mtime |-> 1]]
          /\ dst = [f \in Files |-> NoDst]
    /\ pc = "main" /\ exit_code = -1 /\ printed = {}
    /\ NoLocals /\ NoHistory
    /\ src0 = src /\ dst0 = dst
    /\ run = 1 /\ prevStatus = [f \in Files |-> "pending"]

Exit(code, out) ==
    /\ pc' = "exited" /\ exit_code' = code /\ printed' = printed \cup out

\* ------------------------------------------------------------ main
\* lines 227-231: no input_dir argument -> usage, exit(1)
ParseArgs ==
    /\ pc = "main"
    /\ IF input_dir = "none"
         THEN Exit(1, {"usage"})
         ELSE pc' = "check_ffmpeg" /\ UNCHANGED <<exit_code, printed>>
    /\ UNCHANGED <<cfgVars, fsVars, cntVars, loopVars, cfVars, histVars, runVars>>

\* lines 17-25 and 233-235: line 22 catches SubprocessError and
\* FileNotFoundError only; any other exception of subprocess.run leaves
\* check_ffmpeg and main uncaught, without the "not installed" message
CheckFfmpeg ==
    /\ pc = "check_ffmpeg"
    /\ CASE ffmpeg = "ok" ->
               pc' = "process_directory" /\ UNCHANGED <<exit_code, printed>>
         [] ffmpeg = "missing" -> Exit(1, {"ffmpeg_missing"})
         [] ffmpeg = "noexec" -> Exit(1, {"traceback"})
    /\ UNCHANGED <<cfgVars, fsVars, cntVars, loopVars, cfVars, histVars, runVars>>

\* lines 105-108: process_directory returns, main falls off its end,
\* the interpreter exits with status 0
ValidateDir ==
    /\ pc = "process_directory"
    /\ IF input_dir # "dir"
         THEN Exit(0, {"invalid_dir"})
         ELSE pc' = "discover" /\ UNCHANGED <<exit_code, printed>>
    /\ UNCHANGED <<cfgVars, fsVars, cntVars, loopVars, cfVars, histVars, runVars>>

\* lines 110-133
Discover ==
    /\ pc = "discover"
    /\ source_files' = Listing(Glob(recursive))
    /\ IF source_files' = <<>>
         THEN Exit(0, {"no_files"}) /\ idx' = idx
         ELSE pc' = "loop" /\ idx' = 1 /\ UNCHANGED <<exit_code, printed>>
    /\ success_count' = 0 /\ error_count' = 0 /\ skipped_count' = 0
    /\ total_input_size' = 0 /\ total_output_size' = 0
    /\ UNCHANGED <<cfgVars, fsVars, input_size, cfVars, histVars, runVars>>

\* ------------------------------------------------ process_directory
\* line 142-144, the stale-output test
\* variant: "not older" in place of "newer"
IsNewerOrSame(f) == dst[f].exists /\ dst[f].mtime >= src[f].mtime
IsNewer(f) == dst[f].exists /\ dst[f].mtime > src[f].mtime
PreCheckSkips(f) == ~overwrite /\ IsNewer(f)

\* line 170, the test that tells a skip from an error after convert_file
\* returned False
\* variant: every failure without overwrite taken for a skip
LooksSkippedNoExists(f) == ~overwrite
LooksSkipped(f) == dst[f].exists /\ ~overwrite

\* line 162
\* variant: the delete_original flag is not consulted
MayDeleteUnasked(f) == dst[f].exists
MayDelete(f) == delete_original /\ dst[f].exists

Advance == pc' = "loop" /\ idx' = idx + 1

\* variant of StatSource: the byte total is accumulated as soon as the
\* size is read
StatSourceAccumulating ==
    /\ pc = "loop" /\ idx <= Len(source_files)
    /\ IF src[cur].kind = "file"
         THEN /\ input_size' = src[cur].size
              /\ sizeIn' = [sizeIn EXCEPT ![cur] = src[cur].size]
              /\ total_input_size' = total_input_size + src[cur].size
              /\ pc' = "precheck"
              /\ UNCHANGED <<exit_code, printed, status>>
         ELSE /\ Exit(1, {"traceback"})
              /\ status' = [status EXCEPT ![cur] = "aborted"]
              /\ UNCHANGED <<input_size, sizeIn, total_input_size>>
    /\ UNCHANGED <<cfgVars, fsVars, success_count, error_count, skipped_count,
                   total_output_size, source_files, idx, cfVars,
                   cfCalled, toolRc, unlinked, src0, dst0, runVars>>

\* lines 135-140: next file of the list; source_file.stat() raises
\* FileNotFoundError on a broken link, which nothing catches
StatSource ==
    /\ pc = "loop" /\ idx <= Len(source_files)
    /\ IF src[cur].kind = "file"
         THEN /\ input_size' = src[cur].size
              /\ sizeIn' = [sizeIn EXCEPT ![cur] = src[cur].size]
              /\ pc' = "precheck"
              /\ UNCHANGED <<exit_code, printed, status>>
         ELSE /\ Exit(1, {"traceback"})
              /\ status' = [status EXCEPT ![cur] = "aborted"]
              /\ UNCHANGED <<input_size, sizeIn>>
    /\ UNCHANGED <<cfgVars, fsVars, cntVars, source_files, idx, cfVars,
                   cfCalled, toolRc, unlinked, src0, dst0, runVars>>

\* variant of PreCheck: the stale-output skip is not counted
PreCheckUncounted ==
    /\ pc = "precheck"
    /\ IF PreCheckSkips(cur)
         THEN /\ status' = [status EXCEPT ![cur] = "skipped"]
              /\ Advance
         ELSE /\ pc' = "mkdir"
              /\ UNCHANGED <<status, idx>>
    /\ UNCHANGED <<cfgVars, fsVars, exit_code, printed, cntVars, source_files,
                   input_size, cfVars, cfCalled, toolRc, unlinked, sizeIn, src0,
                   dst0, runVars>>

\* lines 142-147
PreCheck ==
    /\ pc = "precheck"
    /\ IF PreCheckSkips(cur)
         THEN /\ skipped_count' = skipped_count + 1
              /\ status' = [status EXCEPT ![cur] = "skipped"]
              /\ Advance
         ELSE /\ pc' = "mkdir"
              /\ UNCHANGED <<skipped_count, status, idx>>
    /\ UNCHANGED <<cfgVars, fsVars, exit_code, printed, success_count, error_count,
                   total_input_size, total_output_size, source_files, input_size,
                   cfVars, cfCalled, toolRc, unlinked, sizeIn, src0, dst0, runVars>>

\* lines 149-154: output_file.parent is the directory the source was listed
\* in, so mkdir(parents=True, exist_ok=True) finds it and changes nothing;
\* convert_file is then called
Mkdir ==
    /\ pc = "mkdir"
    /\ pc' = "convert_file"
    /\ cfCalled' = [cfCalled EXCEPT ![cur] = TRUE]
    /\ UNCHANGED <<cfgVars, fsVars, exit_code, printed, cntVars, loopVars, cfVars,
                   status, toolRc, unlinked, sizeIn, src0, dst0, runVars>>

\* --------------------------------------------------------- convert_file
\* line 42
\* variant: the overwrite flag read the wrong way round
OutputGuardInverted(f) == dst[f].exists /\ overwrite
OutputGuard(f) == dst[f].exists /\ ~overwrite

\* lines 46-64
Command ==
    <<"ffmpeg", "-i", source_ext>>
      \o (IF to_wav THEN <<>> ELSE <<"-c:a", "flac">>)
      \o <<target_ext>>
      \o (IF overwrite THEN <<"-y">> ELSE <<"-n">>)

\* lines 41-64
ConvertFile ==
    /\ pc = "convert_file"
    /\ IF OutputGuard(cur)
         THEN result' = FALSE /\ pc' = "classify" /\ cmd' = cmd
         ELSE cmd' = Command /\ pc' = "subprocess" /\ result' = result
    /\ UNCHANGED <<cfgVars, fsVars, exit_code, printed, cntVars, loopVars,
                   histVars, runVars>>

\* What the child process can do: end with status 0, end with another
\* status (its stderr holding the "already exists. Exiting." refusal or
\* not), or subprocess.run raises; in each case it has or has not written
\* the output file.
Outcomes == {"zero", "nonzero", "refused", "exception"}

\* lines 66-88
RunSubprocess ==
    /\ pc = "subprocess"
    /\ \E rc \in Outcomes, wrote \in BOOLEAN, sz \in Sizes :
         /\ toolRc' = [toolRc EXCEPT ![cur] = rc]
         /\ dst' = IF wrote
                     THEN [dst EXCEPT ![cur] =
                             [exists |-> TRUE, size |-> sz, mtime |-> MaxTime]]
                     ELSE dst
         /\ result' = (rc = "zero")
         /\ pc' = IF rc = "zero" THEN "bookkeep" ELSE "classify"
    /\ UNCHANGED <<cfgVars, src, exit_code, printed, cntVars, loopVars, cmd,
                   status, cfCalled, unlinked, sizeIn, src0, dst0, runVars>>

\* ------------------------------------------------ process_directory
\* lines 155-159: output_file.stat() raises when the tool reported success
\* and left no output file
Bookkeep ==
    /\ pc = "bookkeep"
    /\ success_count' = success_count + 1
    /\ total_input_size' = total_input_size + input_size
    /\ IF dst[cur].exists
         THEN /\ total_output_size' = total_output_size + dst[cur].size
              /\ pc' = "delete"
              /\ UNCHANGED <<exit_code, printed, status>>
         ELSE /\ Exit(1, {"traceback"})
              /\ status' = [status EXCEPT ![cur] = "aborted"]
              /\ UNCHANGED total_output_size
    /\ UNCHANGED <<cfgVars, fsVars, error_count, skipped_count, loopVars, cfVars,
                   cfCalled, toolRc, unlinked, sizeIn, src0, dst0, runVars>>

\* variant of DeleteOriginal: a failed unlink makes the file an error
DeleteOriginalStrict ==
    /\ pc = "delete"
    /\ IF MayDelete(cur)
         THEN \E ok \in BOOLEAN :
                /\ src' = IF ok THEN [src EXCEPT ![cur] = Gone] ELSE src
                /\ unlinked' = [unlinked EXCEPT ![cur] = IF ok THEN "done" ELSE "failed"]
                /\ error_count' = IF ok THEN error_count ELSE error_count + 1
         ELSE UNCHANGED <<src, unlinked, error_count>>
    /\ status' = [status EXCEPT ![cur] = "converted"]
    /\ Advance
    /\ UNCHANGED <<cfgVars, dst, exit_code, printed, success_count, skipped_count,
                   total_input_size, total_output_size, source_files,
                   input_size, cfVars, cfCalled, toolRc, sizeIn, src0, dst0, runVars>>

\* lines 161-167: unlink succeeds or raises (caught, a warning is printed)
DeleteOriginal ==
    /\ pc = "delete"
    /\ IF MayDelete(cur)
         THEN \E ok \in BOOLEAN :
                /\ src' = IF ok THEN [src EXCEPT ![cur] = Gone] ELSE src
                /\ unlinked' = [unlinked EXCEPT ![cur] = IF ok THEN "done" ELSE "failed"]
         ELSE UNCHANGED <<src, unlinked>>
    /\ status' = [status EXCEPT ![cur] = "converted"]
    /\ Advance
    /\ UNCHANGED <<cfgVars, dst, exit_code, printed, cntVars, source_files,
                   input_size, cfVars, cfCalled, toolRc, sizeIn, src0, dst0, runVars>>

\* lines 168-173
Classify ==
    /\ pc = "classify"
    /\ IF LooksSkipped(cur)
         THEN /\ skipped_count' = skipped_count + 1
              /\ status' = [status EXCEPT ![cur] = "skipped"]
              /\ UNCHANGED error_count
         ELSE /\ error_count' = error_count + 1
              /\ status' = [status EXCEPT ![cur] = "error"]
              /\ UNCHANGED skipped_count
    /\ Advance
    /\ UNCHANGED <<cfgVars, fsVars, exit_code, printed, success_count,
                   total_input_size, total_output_size, source_files, input_size,
                   cfVars, cfCalled, toolRc, unlinked, sizeIn, src0, dst0, runVars>>

\* lines 135 (list exhausted) and 175-210, then main returns: status 0
Report ==
    /\ pc = "loop" /\ idx > Len(source_files)
    /\ Exit(0, {"summary"} \cup (IF success_count > 0 THEN {"statistics"} ELSE {}))
    /\ UNCHANGED <<cfgVars, fsVars, cntVars, loopVars, cfVars, histVars, runVars>>

\* The same command line is run again on the directory as the finished run
\* left it.
Rerun ==
    /\ pc = "exited" /\ run < MaxRuns
    /\ run' = run + 1
    /\ prevStatus' = status
    /\ pc' = "main" /\ exit_code' = -1 /\ printed' = {}
    /\ source_files' = <<>> /\ idx' = 0 /\ input_size' = 0
    /\ success_count' = 0 /\ error_count' = 0 /\ skipped_count' = 0
    /\ total_input_size' = 0 /\ total_output_size' = 0
    /\ cmd' = <<>> /\ result' = FALSE
    /\ status' = [f \in Files |-> "pending"]
    /\ cfCalled' = [f \in Files |-> FALSE]
    /\ toolRc' = [f \in Files |-> "none"]
    /\ unlinked' = [f \in Files |-> "no"]
    /\ sizeIn' = [f \in Files |-> 0]
    /\ src0' = src /\ dst0' = dst
    /\ UNCHANGED <<cfgVars, fsVars>>

Step ==
    \/ ParseArgs \/ CheckFfmpeg \/ ValidateDir \/ Discover
    \/ StatSource \/ PreCheck \/ Mkdir \/ ConvertFile \/ RunSubprocess
    \/ Bookkeep \/ DeleteOriginal \/ Classify \/ Report

\* one run of the program
Next == Step
Spec == Init /\ [][Next]_vars

\* the program run MaxRuns times in succession
NextAgain == Step \/ Rerun
SpecAgain == Init /\ [][NextAgain]_vars

\* ------------------------------------------------------------ properties
With(st) == {f \in Files : status[f] = st}
Counted == With("converted") \cup With("skipped") \cup With("error")
Listed == {source_files[i] : i \in 1..Len(source_files)}
\* the files whose iteration of the loop is over
Passed == {source_files[i] : i \in 1..(idx - 1)}
Reported == "summary" \in printed
AtLoopHead == pc = "loop" \/ Reported
SrcSize0 == [f \in Files |-> src0[f].size]
DstSize == [f \in Files |-> dst[f].size]
Newer0(f) == dst0[f].exists /\ dst0[f].mtime > src0[f].mtime

\* C1: between iterations and in the final report each counter is the
\* number of files that ended that way, every file whose iteration is over
\* is in exactly one of them, and so converted + skipped + error is the
\* number of files processed so far - in the report, the number discovered.
C1_CountersPartition ==
    AtLoopHead =>
        /\ success_count = Cardinality(With("converted"))
        /\ skipped_count = Cardinality(With("skipped"))
        /\ error_count = Cardinality(With("error"))
        /\ Counted = Passed
        /\ success_count + skipped_count + error_count = idx - 1
        /\ Reported =>
             success_count + skipped_count + error_count = Len(source_files)

C1_Witness ==
    /\ Reported /\ Len(source_files) = NFiles
    /\ success_count >= 1 /\ skipped_count + error_count >= 1

\* C2 as stated: with overwrite disabled a second run converts nothing,
\* whatever the first run did.
C2_SecondRunConvertsNothing ==
    (run > 1 /\ ~overwrite) =>
        /\ success_count = 0
        /\ \A f \in Files : toolRc[f] # "zero"

\* C2 amended: with overwrite disabled, a later run neither converts nor
\* starts the tool for a file that the run before it ended as Converted or
\* Skipped; when that holds of every file it lists, it converts nothing.
C2_SecondRunKeepsSettledFiles ==
    (run > 1 /\ ~overwrite) =>
        /\ \A f \in Files :
             prevStatus[f] \in {"converted", "skipped"} =>
                 status[f] # "converted" /\ toolRc[f] = "none"
        /\ (\A f \in Listed : prevStatus[f] \in {"converted", "skipped"}) =>
             success_count = 0

C2_Witness ==
    /\ run > 1 /\ ~overwrite /\ Reported
    /\ \E f \in Files : prevStatus[f] = "converted" /\ status[f] = "skipped"
    /\ \E f \in Files : prevStatus[f] = "skipped" /\ status[f] = "skipped"

\* C3: a run whose input_dir does not exist or is not a directory ends with
\* exit status 1 and without statistics.
C3_InvalidDirExitsOne ==
    (pc = "exited" /\ input_dir \in {"missing", "notdir"}) =>
        exit_code = 1 /\ ~Reported

\* C4: a file for which the tool ended non-zero without its "already
\* exists" refusal is counted as an error, and a file for which the tool was
\* run is counted as skipped only after that refusal.
C4_FailureIsError ==
    \A f \in Counted :
        /\ toolRc[f] = "nonzero" => status[f] = "error"
        /\ (status[f] = "skipped" /\ toolRc[f] # "none") => toolRc[f] = "refused"

\* C5: once discovery found a file, the run ends only after the loop went
\* through every file and the summary was printed.
C5_BatchCompletes ==
    (pc = "exited" /\ Len(source_files) >= 1) =>
        Reported /\ idx = Len(source_files) + 1

\* C6: with overwrite disabled, a file past the pre-check whose destination
\* was strictly newer than it is counted as skipped, without convert_file or
\* the tool having run for it; any other file past the pre-check goes to
\* convert_file.
PastPreCheck(f) == sizeIn[f] > 0 /\ ~(pc = "precheck" /\ cur = f)
C6_StaleOutputSkip ==
    ~overwrite =>
        \A f \in Files : PastPreCheck(f) =>
            IF Newer0(f)
              THEN status[f] = "skipped" /\ ~cfCalled[f] /\ toolRc[f] = "none"
              ELSE cfCalled[f] \/ (pc = "mkdir" /\ cur = f)

C6_Witness ==
    /\ ~overwrite
    /\ \E f \in Files : Newer0(f) /\ status[f] = "skipped"
    /\ \E f \in Files :
         /\ dst0[f].exists /\ dst0[f].mtime = src0[f].mtime
         /\ cfCalled[f] /\ status[f] = "skipped"

\* C7: between iterations and in the report, total_input_size is the sum of
\* the sizes the converted sources had before conversion and
\* total_output_size the sum of the sizes of their destinations.
C7_BytesOfConverted ==
    AtLoopHead =>
        /\ total_input_size = SumOver(With("converted"), SrcSize0)
        /\ total_output_size = SumOver(With("converted"), DstSize)

C7_Witness ==
    /\ Reported
    /\ With("converted") # {} /\ With("skipped") \cup With("error") # {}
    /\ \E f \in With("converted") : src[f].kind = "gone"
    /\ total_input_size # total_output_size

\* C8: with delete_original, a converted file has its destination, and its
\* source is gone unless the unlink failed; a failed unlink leaves the file
\* counted as converted, adds no error and the loop moves on.
C8_DeleteAfterSuccess ==
    delete_original =>
        \A f \in Files :
            /\ status[f] = "converted" =>
                 /\ dst[f].exists
                 /\ unlinked[f] \in {"done", "failed"}
                 /\ src[f].kind = IF unlinked[f] = "done" THEN "gone" ELSE "file"
            /\ unlinked[f] = "failed" =>
                 /\ status[f] = "converted" /\ f \in Passed
                 /\ error_count = Cardinality(With("error"))

C8_Witness ==
    /\ delete_original /\ Reported
    /\ \E f \in Files : status[f] = "converted" /\ unlinked[f] = "done"
    /\ \E f \in Files : status[f] = "converted" /\ unlinked[f] = "failed"

\* C9: with overwrite disabled, the tool is not started while the
\* destination exists, and a file whose destination existed before the run
\* keeps that destination untouched, has no tool run, and is counted as
\* skipped once its iteration is over.
C9_ExistingOutputKept ==
    ~overwrite =>
        /\ pc = "subprocess" => ~dst[cur].exists
        /\ \A f \in Files : dst0[f].exists =>
             /\ toolRc[f] = "none" /\ dst[f] = dst0[f]
             /\ status[f] \notin {"converted", "error"}
             /\ f \in Passed => status[f] = "skipped"

C9_Witness ==
    /\ ~overwrite
    /\ \E f \in Passed :
         /\ dst0[f].exists /\ dst0[f].mtime < src0[f].mtime
         /\ cfCalled[f] /\ status[f] = "skipped"

\* C10: a source that has been removed is one for which delete_original was
\* set, the tool ended with status 0 in this run and the destination exists;
\* it is counted neither as skipped nor as an error.
C10_DeleteOnlyConverted ==
    \A f \in Files :
        (src[f].kind = "gone" \/ unlinked[f] # "no") =>
            /\ delete_original /\ toolRc[f] = "zero" /\ dst[f].exists
            /\ status[f] = "converted"

C10_Witness ==
    \E f, g \in Files :
        /\ src[f].kind = "gone" /\ status[g] \in {"skipped", "error"}
        /\ src[g].kind # "gone"
====
